---- MODULE Spec2Model ----
(***************************************************************************)
(* Model of scrape_temperatures.py: the temperature parser, the table      *)
(* extractor, the database loader and the main driver.                     *)
(*                                                                         *)
(* Text is a sequence of characters.  A printable ASCII character is the   *)
(* one-letter string of itself; tab, newline, form feed and carriage       *)
(* return are "\t", "\n", "\f" and "\r"; every other character is written  *)
(* by its code point in upper-case hexadecimal of at least four digits,    *)
(* as in "U+2212" (Unicode minus), "U+2014" (em-dash), "U+00A0"            *)
(* (no-break space) or "U+0663" (Arabic-Indic digit three).                *)
(*                                                                         *)
(* A float is an IEEE 754 binary64 value.  A finite one is the record      *)
(* [cls |-> "finite", sign, mant, exp] that stands for                     *)
(* sign * mant * 2^exp, where mant is a natural number written as a        *)
(* sequence of limbs in base 2^15, least significant limb first, with no   *)
(* zero limb at the top; mant is odd, or <<>> (zero) with exp = 0.         *)
(* Parsing, addition and division round to nearest, ties to even, with     *)
(* subnormals, signed zeros, overflow to infinity and NaN.                 *)
(***************************************************************************)
EXTENDS Integers, Sequences, FiniteSets, TLC

VARIABLES
    pc,         \* position of the running function
    temp_str,   \* parse_temperature: its argument
    result,     \* parse_temperature: what the call produced
    html,       \* extract_tables: the parsed page, the wikitables in document order
    idx,        \* extract_tables: index of the current table (0-based, as enumerate)
    ri,         \* extract_tables: 1-based index into rows of the row to process next
    all_data,   \* extract_tables: the records emitted so far
    data,       \* create_database / main: the record sequence handed to the loader
    di,         \* create_database: number of records of data already inserted
    store,      \* create_database: the relations of the database
    continent_ids, \* create_database: the dict continent name -> id
    country_ids,   \* create_database: the dict (country, continent) -> id
    db0,        \* the database as it was before create_database connected
    response,   \* main: what requests.get is going to produce
    calls       \* main: the functions main has called so far, in order

vars == <<pc, temp_str, result, html, idx, ri, all_data, data, di, store,
          continent_ids, country_ids, db0, response, calls>>

-----------------------------------------------------------------------------
(* Characters and text *)

UMINUS == "U+2212"
EMDASH == "U+2014"
NL == "\n"

\* The characters that \d of a str pattern matches and that float() reads
\* as digits: the decimal digits of Unicode (category Nd, Unicode 14.0 of
\* Python 3.11), one row per script, each row in the order 0..9
DecimalDigits == <<
    << "0", "1", "2", "3", "4",
       "5", "6", "7", "8", "9" >>,
    << "U+0660", "U+0661", "U+0662", "U+0663", "U+0664",
       "U+0665", "U+0666", "U+0667", "U+0668", "U+0669" >>,
    << "U+06F0", "U+06F1", "U+06F2", "U+06F3", "U+06F4",
       "U+06F5", "U+06F6", "U+06F7", "U+06F8", "U+06F9" >>,
    << "U+07C0", "U+07C1", "U+07C2", "U+07C3", "U+07C4",
       "U+07C5", "U+07C6", "U+07C7", "U+07C8", "U+07C9" >>,
    << "U+0966", "U+0967", "U+0968", "U+0969", "U+096A",
       "U+096B", "U+096C", "U+096D", "U+096E", "U+096F" >>,
    << "U+09E6", "U+09E7", "U+09E8", "U+09E9", "U+09EA",
       "U+09EB", "U+09EC", "U+09ED", "U+09EE", "U+09EF" >>,
    << "U+0A66", "U+0A67", "U+0A68", "U+0A69", "U+0A6A",
       "U+0A6B", "U+0A6C", "U+0A6D", "U+0A6E", "U+0A6F" >>,
    << "U+0AE6", "U+0AE7", "U+0AE8", "U+0AE9", "U+0AEA",
       "U+0AEB", "U+0AEC", "U+0AED", "U+0AEE", "U+0AEF" >>,
    << "U+0B66", "U+0B67", "U+0B68", "U+0B69", "U+0B6A",
       "U+0B6B", "U+0B6C", "U+0B6D", "U+0B6E", "U+0B6F" >>,
    << "U+0BE6", "U+0BE7", "U+0BE8", "U+0BE9", "U+0BEA",
       "U+0BEB", "U+0BEC", "U+0BED", "U+0BEE", "U+0BEF" >>,
    << "U+0C66", "U+0C67", "U+0C68", "U+0C69", "U+0C6A",
       "U+0C6B", "U+0C6C", "U+0C6D", "U+0C6E", "U+0C6F" >>,
    << "U+0CE6", "U+0CE7", "U+0CE8", "U+0CE9", "U+0CEA",
       "U+0CEB", "U+0CEC", "U+0CED", "U+0CEE", "U+0CEF" >>,
    << "U+0D66", "U+0D67", "U+0D68", "U+0D69", "U+0D6A",
       "U+0D6B", "U+0D6C", "U+0D6D", "U+0D6E", "U+0D6F" >>,
    << "U+0DE6", "U+0DE7", "U+0DE8", "U+0DE9", "U+0DEA",
       "U+0DEB", "U+0DEC", "U+0DED", "U+0DEE", "U+0DEF" >>,
    << "U+0E50", "U+0E51", "U+0E52", "U+0E53", "U+0E54",
       "U+0E55", "U+0E56", "U+0E57", "U+0E58", "U+0E59" >>,
    << "U+0ED0", "U+0ED1", "U+0ED2", "U+0ED3", "U+0ED4",
       "U+0ED5", "U+0ED6", "U+0ED7", "U+0ED8", "U+0ED9" >>,
    << "U+0F20", "U+0F21", "U+0F22", "U+0F23", "U+0F24",
       "U+0F25", "U+0F26", "U+0F27", "U+0F28", "U+0F29" >>,
    << "U+1040", "U+1041", "U+1042", "U+1043", "U+1044",
       "U+1045", "U+1046", "U+1047", "U+1048", "U+1049" >>,
    << "U+1090", "U+1091", "U+1092", "U+1093", "U+1094",
       "U+1095", "U+1096", "U+1097", "U+1098", "U+1099" >>,
    << "U+17E0", "U+17E1", "U+17E2", "U+17E3", "U+17E4",
       "U+17E5", "U+17E6", "U+17E7", "U+17E8", "U+17E9" >>,
    << "U+1810", "U+1811", "U+1812", "U+1813", "U+1814",
       "U+1815", "U+1816", "U+1817", "U+1818", "U+1819" >>,
    << "U+1946", "U+1947", "U+1948", "U+1949", "U+194A",
       "U+194B", "U+194C", "U+194D", "U+194E", "U+194F" >>,
    << "U+19D0", "U+19D1", "U+19D2", "U+19D3", "U+19D4",
       "U+19D5", "U+19D6", "U+19D7", "U+19D8", "U+19D9" >>,
    << "U+1A80", "U+1A81", "U+1A82", "U+1A83", "U+1A84",
       "U+1A85", "U+1A86", "U+1A87", "U+1A88", "U+1A89" >>,
    << "U+1A90", "U+1A91", "U+1A92", "U+1A93", "U+1A94",
       "U+1A95", "U+1A96", "U+1A97", "U+1A98", "U+1A99" >>,
    << "U+1B50", "U+1B51", "U+1B52", "U+1B53", "U+1B54",
       "U+1B55", "U+1B56", "U+1B57", "U+1B58", "U+1B59" >>,
    << "U+1BB0", "U+1BB1", "U+1BB2", "U+1BB3", "U+1BB4",
       "U+1BB5", "U+1BB6", "U+1BB7", "U+1BB8", "U+1BB9" >>,
    << "U+1C40", "U+1C41", "U+1C42", "U+1C43", "U+1C44",
       "U+1C45", "U+1C46", "U+1C47", "U+1C48", "U+1C49" >>,
    << "U+1C50", "U+1C51", "U+1C52", "U+1C53", "U+1C54",
       "U+1C55", "U+1C56", "U+1C57", "U+1C58", "U+1C59" >>,
    << "U+A620", "U+A621", "U+A622", "U+A623", "U+A624",
       "U+A625", "U+A626", "U+A627", "U+A628", "U+A629" >>,
    << "U+A8D0", "U+A8D1", "U+A8D2", "U+A8D3", "U+A8D4",
       "U+A8D5", "U+A8D6", "U+A8D7", "U+A8D8", "U+A8D9" >>,
    << "U+A900", "U+A901", "U+A902", "U+A903", "U+A904",
       "U+A905", "U+A906", "U+A907", "U+A908", "U+A909" >>,
    << "U+A9D0", "U+A9D1", "U+A9D2", "U+A9D3", "U+A9D4",
       "U+A9D5", "U+A9D6", "U+A9D7", "U+A9D8", "U+A9D9" >>,
    << "U+A9F0", "U+A9F1", "U+A9F2", "U+A9F3", "U+A9F4",
       "U+A9F5", "U+A9F6", "U+A9F7", "U+A9F8", "U+A9F9" >>,
    << "U+AA50", "U+AA51", "U+AA52", "U+AA53", "U+AA54",
       "U+AA55", "U+AA56", "U+AA57", "U+AA58", "U+AA59" >>,
    << "U+ABF0", "U+ABF1", "U+ABF2", "U+ABF3", "U+ABF4",
       "U+ABF5", "U+ABF6", "U+ABF7", "U+ABF8", "U+ABF9" >>,
    << "U+FF10", "U+FF11", "U+FF12", "U+FF13", "U+FF14",
       "U+FF15", "U+FF16", "U+FF17", "U+FF18", "U+FF19" >>,
    << "U+104A0", "U+104A1", "U+104A2", "U+104A3", "U+104A4",
       "U+104A5", "U+104A6", "U+104A7", "U+104A8", "U+104A9" >>,
    << "U+10D30", "U+10D31", "U+10D32", "U+10D33", "U+10D34",
       "U+10D35", "U+10D36", "U+10D37", "U+10D38", "U+10D39" >>,
    << "U+11066", "U+11067", "U+11068", "U+11069", "U+1106A",
       "U+1106B", "U+1106C", "U+1106D", "U+1106E", "U+1106F" >>,
    << "U+110F0", "U+110F1", "U+110F2", "U+110F3", "U+110F4",
       "U+110F5", "U+110F6", "U+110F7", "U+110F8", "U+110F9" >>,
    << "U+11136", "U+11137", "U+11138", "U+11139", "U+1113A",
       "U+1113B", "U+1113C", "U+1113D", "U+1113E", "U+1113F" >>,
    << "U+111D0", "U+111D1", "U+111D2", "U+111D3", "U+111D4",
       "U+111D5", "U+111D6", "U+111D7", "U+111D8", "U+111D9" >>,
    << "U+112F0", "U+112F1", "U+112F2", "U+112F3", "U+112F4",
       "U+112F5", "U+112F6", "U+112F7", "U+112F8", "U+112F9" >>,
    << "U+11450", "U+11451", "U+11452", "U+11453", "U+11454",
       "U+11455", "U+11456", "U+11457", "U+11458", "U+11459" >>,
    << "U+114D0", "U+114D1", "U+114D2", "U+114D3", "U+114D4",
       "U+114D5", "U+114D6", "U+114D7", "U+114D8", "U+114D9" >>,
    << "U+11650", "U+11651", "U+11652", "U+11653", "U+11654",
       "U+11655", "U+11656", "U+11657", "U+11658", "U+11659" >>,
    << "U+116C0", "U+116C1", "U+116C2", "U+116C3", "U+116C4",
       "U+116C5", "U+116C6", "U+116C7", "U+116C8", "U+116C9" >>,
    << "U+11730", "U+11731", "U+11732", "U+11733", "U+11734",
       "U+11735", "U+11736", "U+11737", "U+11738", "U+11739" >>,
    << "U+118E0", "U+118E1", "U+118E2", "U+118E3", "U+118E4",
       "U+118E5", "U+118E6", "U+118E7", "U+118E8", "U+118E9" >>,
    << "U+11950", "U+11951", "U+11952", "U+11953", "U+11954",
       "U+11955", "U+11956", "U+11957", "U+11958", "U+11959" >>,
    << "U+11C50", "U+11C51", "U+11C52", "U+11C53", "U+11C54",
       "U+11C55", "U+11C56", "U+11C57", "U+11C58", "U+11C59" >>,
    << "U+11D50", "U+11D51", "U+11D52", "U+11D53", "U+11D54",
       "U+11D55", "U+11D56", "U+11D57", "U+11D58", "U+11D59" >>,
    << "U+11DA0", "U+11DA1", "U+11DA2", "U+11DA3", "U+11DA4",
       "U+11DA5", "U+11DA6", "U+11DA7", "U+11DA8", "U+11DA9" >>,
    << "U+16A60", "U+16A61", "U+16A62", "U+16A63", "U+16A64",
       "U+16A65", "U+16A66", "U+16A67", "U+16A68", "U+16A69" >>,
    << "U+16AC0", "U+16AC1", "U+16AC2", "U+16AC3", "U+16AC4",
       "U+16AC5", "U+16AC6", "U+16AC7", "U+16AC8", "U+16AC9" >>,
    << "U+16B50", "U+16B51", "U+16B52", "U+16B53", "U+16B54",
       "U+16B55", "U+16B56", "U+16B57", "U+16B58", "U+16B59" >>,
    << "U+1D7CE", "U+1D7CF", "U+1D7D0", "U+1D7D1", "U+1D7D2",
       "U+1D7D3", "U+1D7D4", "U+1D7D5", "U+1D7D6", "U+1D7D7" >>,
    << "U+1D7D8", "U+1D7D9", "U+1D7DA", "U+1D7DB", "U+1D7DC",
       "U+1D7DD", "U+1D7DE", "U+1D7DF", "U+1D7E0", "U+1D7E1" >>,
    << "U+1D7E2", "U+1D7E3", "U+1D7E4", "U+1D7E5", "U+1D7E6",
       "U+1D7E7", "U+1D7E8", "U+1D7E9", "U+1D7EA", "U+1D7EB" >>,
    << "U+1D7EC", "U+1D7ED", "U+1D7EE", "U+1D7EF", "U+1D7F0",
       "U+1D7F1", "U+1D7F2", "U+1D7F3", "U+1D7F4", "U+1D7F5" >>,
    << "U+1D7F6", "U+1D7F7", "U+1D7F8", "U+1D7F9", "U+1D7FA",
       "U+1D7FB", "U+1D7FC", "U+1D7FD", "U+1D7FE", "U+1D7FF" >>,
    << "U+1E140", "U+1E141", "U+1E142", "U+1E143", "U+1E144",
       "U+1E145", "U+1E146", "U+1E147", "U+1E148", "U+1E149" >>,
    << "U+1E2F0", "U+1E2F1", "U+1E2F2", "U+1E2F3", "U+1E2F4",
       "U+1E2F5", "U+1E2F6", "U+1E2F7", "U+1E2F8", "U+1E2F9" >>,
    << "U+1E950", "U+1E951", "U+1E952", "U+1E953", "U+1E954",
       "U+1E955", "U+1E956", "U+1E957", "U+1E958", "U+1E959" >>,
    << "U+1FBF0", "U+1FBF1", "U+1FBF2", "U+1FBF3", "U+1FBF4",
       "U+1FBF5", "U+1FBF6", "U+1FBF7", "U+1FBF8", "U+1FBF9" >> >>
Digits == {DecimalDigits[b][i] : b \in 1..Len(DecimalDigits), i \in 1..10}

DigitValue ==
    [c \in Digits |->
        (CHOOSE i \in 1..10 :
            \E b \in 1..Len(DecimalDigits) : DecimalDigits[b][i] = c) - 1]

DigitVal(c) == DigitValue[c]

\* str.strip() with no argument removes the characters for which
\* str.isspace() holds from both ends
Whitespace ==
    {"\t", NL, "U+000B", "\f", "\r", "U+001C", "U+001D", "U+001E", "U+001F",
     " ", "U+0085", "U+00A0", "U+1680", "U+2000", "U+2001", "U+2002",
     "U+2003", "U+2004", "U+2005", "U+2006", "U+2007", "U+2008", "U+2009",
     "U+200A", "U+2028", "U+2029", "U+202F", "U+205F", "U+3000"}

\* The sequence f with its elements written out
Listed(f) == f \o <<>>

\* The least and the greatest element of a non-empty set of integers
Least(S) == CHOOSE x \in S : \A y \in S : x <= y

Greatest(S) == CHOOSE x \in S : \A y \in S : x >= y

LStrip(s) ==
    LET kept == {i \in 1..Len(s) : s[i] \notin Whitespace}
    IN  IF kept = {} THEN <<>> ELSE SubSeq(s, Least(kept), Len(s))

RStrip(s) ==
    LET kept == {i \in 1..Len(s) : s[i] \notin Whitespace}
    IN  IF kept = {} THEN <<>> ELSE SubSeq(s, 1, Greatest(kept))

Strip(s) == RStrip(LStrip(s))

-----------------------------------------------------------------------------
(* Natural numbers of any size: sequences of limbs in base 2^15, the least *)
(* significant limb first, no zero limb at the top; <<>> is zero           *)

LimbBase == 2^15

Max(a, b) == IF a >= b THEN a ELSE b

Min(a, b) == IF a <= b THEN a ELSE b

\* a without the zero limbs at its top
BigTrim(a) ==
    LET used == {i \in 1..Len(a) : a[i] # 0}
    IN  IF used = {} THEN <<>> ELSE SubSeq(a, 1, Greatest(used))

RECURSIVE Big(_)
Big(n) == IF n = 0 THEN <<>> ELSE <<n % LimbBase>> \o Big(n \div LimbBase)

Limb(a, i) == IF i <= Len(a) THEN a[i] ELSE 0

\* The limbs lo..hi of a + b and the carry out of them, for the carry c
\* into them
RECURSIVE AddLimbs(_, _, _, _, _)
AddLimbs(a, b, lo, hi, c) ==
    IF lo > hi THEN [v |-> <<>>, c |-> c]
    ELSE IF lo = hi
    THEN LET x == Limb(a, lo) + Limb(b, lo) + c
         IN  [v |-> <<x % LimbBase>>, c |-> x \div LimbBase]
    ELSE LET mid  == (lo + hi) \div 2
             low  == AddLimbs(a, b, lo, mid, c)
             high == AddLimbs(a, b, mid + 1, hi, low.c)
         IN  [v |-> low.v \o high.v, c |-> high.c]

BigAdd(a, b) ==
    LET WithCarry(x) == IF x.c = 0 THEN x.v ELSE Append(x.v, x.c)
    IN  IF a = <<>> THEN b
        ELSE IF b = <<>> THEN a
        ELSE WithCarry(AddLimbs(a, b, 1, Max(Len(a), Len(b)), 0))

\* The limbs lo..hi of a - b and the borrow out of them, for the borrow c
\* into them
RECURSIVE SubLimbs(_, _, _, _, _)
SubLimbs(a, b, lo, hi, c) ==
    IF lo > hi THEN [v |-> <<>>, c |-> c]
    ELSE IF lo = hi
    THEN LET x == Limb(a, lo) - Limb(b, lo) - c
         IN  [v |-> <<x % LimbBase>>, c |-> IF x < 0 THEN 1 ELSE 0]
    ELSE LET mid  == (lo + hi) \div 2
             low  == SubLimbs(a, b, lo, mid, c)
             high == SubLimbs(a, b, mid + 1, hi, low.c)
         IN  [v |-> low.v \o high.v, c |-> high.c]

\* a - b, for a >= b
BigSub(a, b) == IF b = <<>> THEN a ELSE BigTrim(SubLimbs(a, b, 1, Len(a), 0).v)

\* -1, 0 or 1 as a is less than, equal to or greater than b
BigCmp(a, b) ==
    IF Len(a) # Len(b) THEN (IF Len(a) < Len(b) THEN -1 ELSE 1)
    ELSE LET differ == {i \in 1..Len(a) : a[i] # b[i]}
         IN  IF differ = {} THEN 0
             ELSE IF a[Greatest(differ)] < b[Greatest(differ)] THEN -1 ELSE 1

\* The limbs lo..hi of a * m and the carry out of them, for the carry c
\* into them
RECURSIVE MulLimbs(_, _, _, _, _)
MulLimbs(a, m, lo, hi, c) ==
    IF lo > hi THEN [v |-> <<>>, c |-> c]
    ELSE IF lo = hi
    THEN LET x == a[lo] * m + c
         IN  [v |-> <<x % LimbBase>>, c |-> x \div LimbBase]
    ELSE LET mid  == (lo + hi) \div 2
             low  == MulLimbs(a, m, lo, mid, c)
             high == MulLimbs(a, m, mid + 1, hi, low.c)
         IN  [v |-> low.v \o high.v, c |-> high.c]

\* a * m, for 0 < m < 2^15
BigMulSmall(a, m) ==
    LET WithTop(x) == IF x.c = 0 THEN x.v ELSE Append(x.v, x.c)
    IN  IF a = <<>> THEN <<>> ELSE WithTop(MulLimbs(a, m, 1, Len(a), 0))

\* Long division from the top: the limbs hi..lo of the quotient of a by m,
\* the most significant first, and the remainder below them, for the
\* remainder r coming from the limbs above
RECURSIVE DivLimbs(_, _, _, _, _)
DivLimbs(a, m, lo, hi, r) ==
    IF lo > hi THEN [q |-> <<>>, r |-> r]
    ELSE IF lo = hi
    THEN LET cur == r * LimbBase + a[lo]
         IN  [q |-> <<cur \div m>>, r |-> cur % m]
    ELSE LET mid  == (lo + hi) \div 2
             high == DivLimbs(a, m, mid + 1, hi, r)
             low  == DivLimbs(a, m, lo, mid, high.r)
         IN  [q |-> high.q \o low.q, r |-> low.r]

\* Quotient and remainder of a by m, for 0 < m <= 2^15
BigDivSmall(a, m) ==
    LET FromLeast(x) ==
            [q |-> BigTrim(Listed([i \in 1..Len(a) |-> x.q[Len(a) + 1 - i]])),
             r |-> x.r]
    IN  IF a = <<>> THEN [q |-> <<>>, r |-> 0]
        ELSE FromLeast(DivLimbs(a, m, 1, Len(a), 0))

RECURSIVE SmallBitLen(_)
SmallBitLen(n) == IF n = 0 THEN 0 ELSE 1 + SmallBitLen(n \div 2)

\* Number of binary digits of a
BitLen(a) ==
    IF a = <<>> THEN 0 ELSE 15 * (Len(a) - 1) + SmallBitLen(a[Len(a)])

IsOdd(a) == a # <<>> /\ a[1] % 2 = 1

\* a * 2^k
BigShl(a, k) ==
    IF a = <<>> THEN <<>>
    ELSE [i \in 1..(k \div 15) |-> 0] \o BigMulSmall(a, 2^(k % 15))

\* floor(a / 2^k), and whether a non-zero bit was shifted out
BigShr(a, k) ==
    LET limbs == Min(k \div 15, Len(a))
        Shifted(x) ==
            [q |-> x.q, sticky |-> x.r # 0 \/ \E i \in 1..limbs : a[i] # 0]
    IN  Shifted(BigDivSmall(SubSeq(a, limbs + 1, Len(a)), 2^(k % 15)))

RECURSIVE SmallTrailingZeros(_)
SmallTrailingZeros(n) ==
    IF n % 2 = 1 THEN 0 ELSE 1 + SmallTrailingZeros(n \div 2)

\* Number of zero bits below the lowest one bit of a, for a > 0
TrailingZeros(a) ==
    LET low == Least({i \in 1..Len(a) : a[i] # 0})
    IN  15 * (low - 1) + SmallTrailingZeros(a[low])

-----------------------------------------------------------------------------
(* Floats: IEEE 754 binary64 *)

Absent == [kind |-> "None", cls |-> "finite", sign |-> 1, mant |-> <<>>, exp |-> 0]

Raised(e) == [kind |-> e, cls |-> "finite", sign |-> 1, mant |-> <<>>, exp |-> 0]

Zero(sign) ==
    [kind |-> "float", cls |-> "finite", sign |-> sign, mant |-> <<>>, exp |-> 0]

Inf(sign) ==
    [kind |-> "float", cls |-> "inf", sign |-> sign, mant |-> <<>>, exp |-> 0]

NaN == [kind |-> "float", cls |-> "nan", sign |-> 1, mant |-> <<>>, exp |-> 0]

\* The binary64 value nearest to sign * (mant + f) * 2^exp, ties to even,
\* where 0 <= f < 1 and f > 0 exactly when sticky (then mant has at least
\* 55 bits): 53 bits of significand, least exponent -1074 (subnormals),
\* infinity from 2^1024 on
Double(sign, mant, exp, sticky) ==
    LET \* m * 2^e with the zero bits at the bottom of m moved into e
        Normal(m, e) ==
            LET Lowest(z) ==
                    [kind |-> "float", cls |-> "finite", sign |-> sign,
                     mant |-> BigShr(m, z).q, exp |-> e + z]
            IN  IF m = <<>> THEN Zero(sign)
                ELSE IF BitLen(m) + e > 1024 THEN Inf(sign)
                ELSE Lowest(TrailingZeros(m))
        \* s1 is mant without its r - 1 lowest bits: the last bit of s1.q
        \* is the first one dropped, half what is kept
        Nearest(s1, half) ==
            IF IsOdd(s1.q) /\ (sticky \/ s1.sticky \/ IsOdd(half))
            THEN BigAdd(half, <<1>>) ELSE half
        Halved(s1) == Nearest(s1, BigShr(s1.q, 1).q)
        \* r bits of mant are dropped
        Dropping(r) ==
            Normal(IF r <= 0 THEN mant ELSE Halved(BigShr(mant, r - 1)),
                   IF r <= 0 THEN exp ELSE exp + r)
    IN  IF mant = <<>> THEN Zero(sign)
        ELSE Dropping(Max(BitLen(mant) - 53, (-1074) - exp))

RECURSIVE SmallDigitsVal(_)
SmallDigitsVal(s) ==
    IF s = <<>> THEN 0
    ELSE 10 * SmallDigitsVal(SubSeq(s, 1, Len(s) - 1)) + DigitVal(s[Len(s)])

\* a * 10^k
RECURSIVE BigTimesPow10(_, _)
BigTimesPow10(a, k) ==
    IF k = 0 \/ a = <<>> THEN a
    ELSE IF k <= 4 THEN BigMulSmall(a, 10^k)
    ELSE BigTimesPow10(BigTimesPow10(a, k \div 2), k - k \div 2)

\* floor(a / 10^k), and whether the division left a remainder
RECURSIVE BigDivPow10(_, _)
BigDivPow10(a, k) ==
    LET Small(x) == [q |-> x.q, sticky |-> x.r # 0]
    IN  IF k = 0 \/ a = <<>> THEN [q |-> a, sticky |-> FALSE]
        ELSE IF k <= 4 THEN Small(BigDivSmall(a, 10^k))
        ELSE LET x == BigDivPow10(a, k \div 2)
                 y == BigDivPow10(x.q, k - k \div 2)
             IN  [q |-> y.q, sticky |-> x.sticky \/ y.sticky]

\* The natural number that a text of decimal digits writes
RECURSIVE DigitsVal(_)
DigitsVal(s) ==
    IF Len(s) <= 4 THEN Big(SmallDigitsVal(s))
    ELSE LET lo == Len(s) \div 2
         IN  BigAdd(BigTimesPow10(DigitsVal(SubSeq(s, 1, Len(s) - lo)), lo),
                    DigitsVal(SubSeq(s, Len(s) - lo + 1, Len(s))))

\* float(value) on a text over "-", "." and digits: the correctly rounded
\* value when the text is an optional "-", digits, an optional "." and
\* digits, with a digit somewhere; a ValueError otherwise
PyFloat(value) ==
    LET neg  == value # <<>> /\ Head(value) = "-"
        body == IF neg THEN Tail(value) ELSE value
        dots == {i \in 1..Len(body) : body[i] = "."}
        ip   == IF dots = {} THEN body ELSE SubSeq(body, 1, Least(dots) - 1)
        fp   == IF dots = {} THEN <<>>
                ELSE SubSeq(body, Least(dots) + 1, Len(body))
        ok   == /\ Cardinality(dots) <= 1
                /\ \A i \in 1..Len(ip) : ip[i] \in Digits
                /\ \A i \in 1..Len(fp) : fp[i] \in Digits
                /\ Len(ip) + Len(fp) > 0
        sign == IF neg THEN -1 ELSE 1
        k    == Len(fp)
        \* mag / 10^k = (mag * 2^sh / 10^k) * 2^(-sh), the quotient with
        \* more than 55 bits
        Quotient(x, sh) == [q |-> x.q, e |-> -sh, sticky |-> x.sticky]
        Scaled(mag, sh) == Quotient(BigDivPow10(BigShl(mag, sh), k), sh)
        Ratio(mag) ==
            IF k = 0 THEN [q |-> mag, e |-> 0, sticky |-> FALSE]
            ELSE Scaled(mag, Max(0, 56 + 4 * k - BitLen(mag)))
        Nearest(x) == Double(sign, x.q, x.e, x.sticky)
    IN  IF ~ok THEN Raised("ValueError")
        ELSE Nearest(Ratio(DigitsVal(ip \o fp)))

\* a + b of two floats.  An operand below a quarter of the last place of
\* the other one leaves the other one as it is.
FloatAdd(a, b) ==
    LET \* x * 2^e and y * 2^e are the magnitudes of a and b
        Signed(x, y, c) ==
            IF a.sign = b.sign THEN [sign |-> a.sign, mag |-> BigAdd(x, y)]
            ELSE IF c = 0 THEN [sign |-> 1, mag |-> <<>>]
            ELSE IF c > 0 THEN [sign |-> a.sign, mag |-> BigSub(x, y)]
            ELSE [sign |-> b.sign, mag |-> BigSub(y, x)]
        Total(t, e) == Double(t.sign, t.mag, e, FALSE)
        Aligned(x, y, e) == Total(Signed(x, y, BigCmp(x, y)), e)
        Lowest(e) == Aligned(BigShl(a.mant, a.exp - e), BigShl(b.mant, b.exp - e), e)
    IN  IF a.cls = "nan" \/ b.cls = "nan" THEN NaN
        ELSE IF a.cls = "inf"
        THEN (IF b.cls = "inf" /\ b.sign # a.sign THEN NaN ELSE a)
        ELSE IF b.cls = "inf" THEN b
        ELSE IF a.mant = <<>> /\ b.mant = <<>>
        THEN Zero(IF a.sign = -1 /\ b.sign = -1 THEN -1 ELSE 1)
        ELSE IF a.mant = <<>> THEN b
        ELSE IF b.mant = <<>> THEN a
        ELSE IF b.exp + BitLen(b.mant) < a.exp + BitLen(a.mant) - 55 THEN a
        ELSE IF a.exp + BitLen(a.mant) < b.exp + BitLen(b.mant) - 55 THEN b
        ELSE Lowest(Min(a.exp, b.exp))

\* a / n of a float by a positive int n < 2^11
FloatDivInt(a, n) ==
    LET Quotient(x) == Double(a.sign, x.q, a.exp - 67, x.r # 0)
    IN  IF a.cls # "finite" THEN a
        ELSE Quotient(BigDivSmall(BigShl(a.mant, 67), n))

-----------------------------------------------------------------------------
(* parse_temperature *)

NoDataMarkers == { <<>>, <<EMDASH>>, <<"-">>, <<"N", "/", "A">> }

\* The characters of s at the positions in kept, in their order
Pick(s, kept) ==
    Listed([j \in 1..Cardinality(kept) |->
              s[CHOOSE i \in kept : Cardinality({k \in kept : k <= i}) = j]])

\* re.sub(r'\([^)]*\)', '', s): the matches are taken from the left and do
\* not overlap; each runs from a "(" to the first ")" after it.  So the
\* character at i is removed when a ")" stands at or after i and a "("
\* stands at or before i with no ")" from it up to i.
RemoveParens(s) ==
    LET removed ==
            {i \in 1..Len(s) :
                /\ \E c \in i..Len(s) : s[c] = ")"
                /\ \E p \in 1..i : /\ s[p] = "("
                                   /\ \A k \in p..(i - 1) : s[k] # ")"}
    IN  Pick(s, (1..Len(s)) \ removed)

\* Length of the greedy run of digits of s that starts at position i
DigitRun(s, i) ==
    LET others == {j \in i..Len(s) : s[j] \notin Digits}
    IN  IF others = {} THEN Max(Len(s) - i + 1, 0) ELSE Least(others) - i

\* Last position of the match of [-U+2212]?\d+\.?\d* that starts at i, or 0
MatchEnd(s, i) ==
    LET from == IF s[i] \in {"-", UMINUS} THEN i + 1 ELSE i
        \* e2 is the last position of [-U+2212]?\d+\.?
        Fraction(e2) == e2 + DigitRun(s, e2 + 1)
        \* e1 is the last position of [-U+2212]?\d+, from - 1 without a digit
        Integer(e1) ==
            IF e1 < from THEN 0
            ELSE Fraction(IF e1 + 1 <= Len(s) /\ s[e1 + 1] = "."
                          THEN e1 + 1 ELSE e1)
    IN  Integer(from + DigitRun(s, from) - 1)

\* re.search: the match at the leftmost position where one exists;
\* <<>> stands for the None that re.search gives when there is none
NoMatch == <<>>

Search(s) ==
    LET Leftmost(starts) ==
            IF starts = {} THEN NoMatch
            ELSE <<SubSeq(s, Least(starts), MatchEnd(s, Least(starts)))>>
    IN  Leftmost({i \in 1..Len(s) : MatchEnd(s, i) > 0})

\* str.replace(U+2212, '-')
ReplaceMinus(s) ==
    Listed([i \in 1..Len(s) |-> IF s[i] = UMINUS THEN "-" ELSE s[i]])

\* Faulty variant: the `if match:` guard dropped, so match.group() is called on None
parse_temperature_unguarded(s) ==
    LET Converted(f) == IF f.kind = "ValueError" THEN Absent ELSE f
        Matched(match) ==
            IF match = NoMatch THEN Raised("AttributeError")
            ELSE Converted(PyFloat(ReplaceMinus(match[1])))
    IN  IF s = <<>> \/ Strip(s) \in NoDataMarkers THEN Absent
        ELSE Matched(Search(RemoveParens(s)))

parse_temperature(s) ==
    LET Converted(f) == IF f.kind = "ValueError" THEN Absent ELSE f
        Matched(match) ==
            IF match = NoMatch THEN Absent
            ELSE Converted(PyFloat(ReplaceMinus(match[1])))
    IN  IF s = <<>> \/ Strip(s) \in NoDataMarkers THEN Absent
        ELSE Matched(Search(RemoveParens(s)))

-----------------------------------------------------------------------------
(* extract_tables *)

continent_order_swapped ==
    <<"Asia", "Africa", "Europe", "North America", "Oceania", "South America">>

continent_order ==
    <<"Africa", "Asia", "Europe", "North America", "Oceania", "South America">>

\* re.sub(r'\[.*?\]', '', s): the matches are taken from the left and do
\* not overlap; each runs from a "[" to the first "]" after it, and has no
\* newline in between ("." does not match a newline).  So the character
\* at i is removed when, for the first "]" at or after i, a "[" stands at
\* or before i with no "]" from it up to i and no newline from it up to
\* that "]".
RemoveBrackets(s) ==
    LET removed ==
            {i \in 1..Len(s) :
                /\ \E c \in i..Len(s) : s[c] = "]"
                /\ LET c == Least({j \in i..Len(s) : s[j] = "]"})
                   IN  \E p \in 1..i :
                          /\ s[p] = "["
                          /\ \A k \in p..(i - 1) : s[k] # "]"
                          /\ \A k \in (p + 1)..(c - 1) : s[k] # NL}
    IN  Pick(s, (1..Len(s)) \ removed)

\* get_text().strip(), then the bracketed footnote markers removed, then
\* strip() again
CleanName(text) == Strip(RemoveBrackets(Strip(text)))

\* Faulty variant: a row of 13 cells is let through
HasEnoughCells13(cells) == Len(cells) >= 13

\* len(cells) >= 14
HasEnoughCells(cells) == Len(cells) >= 14

\* Faulty variant: the months are read from cells 1..12 instead of cells 2..13
MonthlyTempsShifted(cells) ==
    Listed([m \in 1..12 |->
              IF m < Len(cells) THEN parse_temperature(cells[m + 1]) ELSE Absent])

\* monthly_temps: for i in range(2, 14), the parser's result for cells[i]
\* (cells[i] of the source is cells[i + 1] here), None past the last cell
MonthlyTemps(cells) ==
    Listed([m \in 1..12 |->
              IF m + 1 < Len(cells) THEN parse_temperature(cells[m + 2])
              ELSE Absent])

AddNum(a, b) == FloatAdd(a, b)

\* sum(seq): the items added one by one, from the left, to a zero
RECURSIVE SumNums(_)
SumNums(seq) ==
    IF seq = <<>> THEN Zero(1)
    ELSE AddNum(SumNums(SubSeq(seq, 1, Len(seq) - 1)), seq[Len(seq)])

\* [t for t in monthly_temps if t is not None]
RECURSIVE ValidTemps(_)
ValidTemps(seq) ==
    IF seq = <<>> THEN <<>>
    ELSE IF Head(seq).kind = "None" THEN ValidTemps(Tail(seq))
    ELSE <<Head(seq)>> \o ValidTemps(Tail(seq))

\* Faulty variant: the sum of the present months is divided by 12
YearlyAvgOverTwelve(cells, monthly_temps) ==
    LET Mean(valid_temps) ==
            IF valid_temps # <<>> THEN FloatDivInt(SumNums(valid_temps), 12)
            ELSE Absent
        Given(yearly_avg) ==
            IF yearly_avg.kind # "None" THEN yearly_avg
            ELSE Mean(ValidTemps(monthly_temps))
    IN  Given(IF Len(cells) > 14 THEN parse_temperature(cells[15]) ELSE Absent)

\* yearly_avg: the parser's result for cells[14] when the row has that
\* cell; when that is None, sum(valid_temps) / len(valid_temps) if any
YearlyAvg(cells, monthly_temps) ==
    LET Mean(valid_temps) ==
            IF valid_temps # <<>>
            THEN FloatDivInt(SumNums(valid_temps), Len(valid_temps))
            ELSE Absent
        Given(yearly_avg) ==
            IF yearly_avg.kind # "None" THEN yearly_avg
            ELSE Mean(ValidTemps(monthly_temps))
    IN  Given(IF Len(cells) > 14 THEN parse_temperature(cells[15]) ELSE Absent)

\* The dict appended to all_data
Record(continent, country, city, m, yearly_avg) ==
    [continent |-> continent, country |-> country, city |-> city,
     jan |-> m[1], feb |-> m[2], mar |-> m[3], apr |-> m[4], may |-> m[5],
     jun |-> m[6], jul |-> m[7], aug |-> m[8], sep |-> m[9], oct |-> m[10],
     nov |-> m[11], dec |-> m[12], yearly_avg |-> yearly_avg]

\* Faulty variant: only the city is tested for emptiness
RowRecordsCityOnly(cells, current_continent) ==
    LET Row(country, city, monthly_temps) ==
            IF city = <<>> THEN <<>>
            ELSE << Record(current_continent, country, city, monthly_temps,
                           YearlyAvg(cells, monthly_temps)) >>
    IN  IF ~HasEnoughCells(cells) THEN <<>>
        ELSE Row(CleanName(cells[1]), CleanName(cells[2]), MonthlyTemps(cells))

\* One pass of the body of `for row in rows[1:]`: what it appends to all_data
RowRecords(cells, current_continent) ==
    LET Row(country, city, monthly_temps) ==
            IF country = <<>> \/ city = <<>> THEN <<>>
            ELSE << Record(current_continent, country, city, monthly_temps,
                           YearlyAvg(cells, monthly_temps)) >>
    IN  IF ~HasEnoughCells(cells) THEN <<>>
        ELSE Row(CleanName(cells[1]), CleanName(cells[2]), MonthlyTemps(cells))

\* The exception that a parse_temperature call made for a row raises and
\* extract_tables lets through, "" if there is none: records is what the
\* pass over the row appends; the monthly cells are parsed before the
\* yearly one
RowException(records) ==
    LET FirstOf(values, failed) ==
            IF failed = {} THEN "" ELSE values[Least(failed)].kind
        Failed(values) ==
            FirstOf(values,
                    {i \in 1..13 : values[i].kind \notin {"None", "float"}})
        Values(r) ==
            Failed(<<r.jan, r.feb, r.mar, r.apr, r.may, r.jun, r.jul, r.aug,
                     r.sep, r.oct, r.nov, r.dec, r.yearly_avg>>)
    IN  IF records = <<>> THEN "" ELSE Values(records[1])

\* extract_tables(html) as a whole: the records of the rows after the
\* first of each of the first len(continent_order) tables, in page order
RECURSIVE TableRecords(_, _, _)
TableRecords(rows, r, current_continent) ==
    IF r > Len(rows) THEN <<>>
    ELSE RowRecords(rows[r], current_continent)
            \o TableRecords(rows, r + 1, current_continent)

RECURSIVE PageRecords(_, _)
PageRecords(tables, i) ==
    IF i >= Len(tables) THEN <<>>
    ELSE (IF i < Len(continent_order)
          THEN TableRecords(tables[i + 1], 2, continent_order[i + 1])
          ELSE <<>>)
         \o PageRecords(tables, i + 1)

extract_tables(page) == PageRecords(page, 0)

-----------------------------------------------------------------------------
(* create_database *)

\* The database file: whether the schema exists, the rows of the four
\* relations in insertion order, and sqlite_sequence, the largest id that
\* each AUTOINCREMENT column has handed out
NoDatabase ==
    [created |-> FALSE, continents |-> <<>>, countries |-> <<>>,
     cities |-> <<>>, temperatures |-> <<>>,
     sqlite_sequence |-> [continents |-> 0, countries |-> 0,
                          cities |-> 0, temperatures |-> 0]]

\* sqlite3.connect and the CREATE TABLE / VIEW IF NOT EXISTS statements
Connect(db) == [db EXCEPT !.created = TRUE]

\* SELECT id FROM continents WHERE name = ?
ContinentId(db, name) ==
    db.continents[CHOOSE i \in 1..Len(db.continents) :
                      db.continents[i].name = name].id

\* INSERT OR IGNORE INTO continents (name): name is UNIQUE. The id is
\* taken from sqlite_sequence also when the row is ignored.
InsertContinent(db, name) ==
    LET id == db.sqlite_sequence.continents + 1
        db1 == [db EXCEPT !.sqlite_sequence.continents = id]
    IN  IF \E i \in 1..Len(db.continents) : db.continents[i].name = name
        THEN db1
        ELSE [db1 EXCEPT !.continents = Append(@, [id |-> id, name |-> name])]

\* SELECT id FROM countries WHERE name = ? AND continent_id = ?
CountryId(db, name, continent_id) ==
    db.countries[CHOOSE i \in 1..Len(db.countries) :
                     /\ db.countries[i].name = name
                     /\ db.countries[i].continent_id = continent_id].id

\* INSERT OR IGNORE INTO countries (name, continent_id): the pair is UNIQUE
InsertCountry(db, name, continent_id) ==
    LET id == db.sqlite_sequence.countries + 1
        db1 == [db EXCEPT !.sqlite_sequence.countries = id]
    IN  IF \E i \in 1..Len(db.countries) :
              /\ db.countries[i].name = name
              /\ db.countries[i].continent_id = continent_id
        THEN db1
        ELSE [db1 EXCEPT !.countries =
                 Append(@, [id |-> id, name |-> name,
                            continent_id |-> continent_id])]

\* Faulty variant: the countries are remembered by name alone
country_key_name_only(row) == <<row.country>>

\* country_key = (row['country'], row['continent'])
country_key(row) == <<row.country, row.continent>>

\* A value bound to a REAL column, as it reads back: None and a NaN are
\* stored as NULL, a negative zero as zero
Stored(x) ==
    IF x.kind = "float" /\ x.cls = "nan" THEN Absent
    ELSE IF x.kind = "float" /\ x.cls = "finite" /\ x.mant = <<>> THEN Zero(1)
    ELSE x

\* One pass of `for row in data`: the database and the two dicts after it
InsertRow(db, cont_ids, coun_ids, row) ==
    LET db1 == IF row.continent \in DOMAIN cont_ids THEN db
               ELSE InsertContinent(db, row.continent)
        cont_ids1 ==
            IF row.continent \in DOMAIN cont_ids THEN cont_ids
            ELSE cont_ids @@ (row.continent :> ContinentId(db1, row.continent))
        key == country_key(row)
        db2 == IF key \in DOMAIN coun_ids THEN db1
               ELSE InsertCountry(db1, row.country, cont_ids1[row.continent])
        coun_ids1 ==
            IF key \in DOMAIN coun_ids THEN coun_ids
            ELSE coun_ids @@
                 (key :> CountryId(db2, row.country, cont_ids1[row.continent]))
        city_id == db2.sqlite_sequence.cities + 1   \* cursor.lastrowid
        temp_id == db2.sqlite_sequence.temperatures + 1
        db3 == [db2 EXCEPT
                  !.sqlite_sequence.cities = city_id,
                  !.sqlite_sequence.temperatures = temp_id,
                  !.cities = Append(@, [id |-> city_id, name |-> row.city,
                                        country_id |-> coun_ids1[key]]),
                  !.temperatures =
                      Append(@, [id |-> temp_id, city_id |-> city_id,
                                 jan |-> Stored(row.jan),
                                 feb |-> Stored(row.feb),
                                 mar |-> Stored(row.mar),
                                 apr |-> Stored(row.apr),
                                 may |-> Stored(row.may),
                                 jun |-> Stored(row.jun),
                                 jul |-> Stored(row.jul),
                                 aug |-> Stored(row.aug),
                                 sep |-> Stored(row.sep),
                                 oct |-> Stored(row.oct),
                                 nov |-> Stored(row.nov),
                                 dec_temp |-> Stored(row.dec),
                                 yearly_avg |-> Stored(row.yearly_avg)])]
    IN  [db |-> db3, continent_ids |-> cont_ids1, country_ids |-> coun_ids1]

\* create_database(data) as a whole: the database it leaves
RECURSIVE InsertAll(_, _, _)
InsertAll(st, rows, i) ==
    IF i > Len(rows) THEN st
    ELSE InsertAll(InsertRow(st.db, st.continent_ids, st.country_ids, rows[i]),
                   rows, i + 1)

create_database(rows, db) ==
    InsertAll([db |-> Connect(db), continent_ids |-> <<>>, country_ids |-> <<>>],
              rows, 1).db

-----------------------------------------------------------------------------
(* fetch_wikipedia_page *)

\* What requests.get produces: error when it raises (no connection), else
\* the status code and the text of the response
NoResponse == [error |-> FALSE, status_code |-> 0, text |-> <<>>]

\* The exception fetch_wikipedia_page raises for a response, "" if none:
\* requests.get raises when the connection fails, raise_for_status raises
\* on the status codes 400..599
FetchException(resp) ==
    IF resp.error THEN "ConnectionError"
    ELSE IF resp.status_code >= 400 /\ resp.status_code < 600 THEN "HTTPError"
    ELSE ""

-----------------------------------------------------------------------------
(* Specification SpecParse: parse_temperature applied to every text of at  *)
(* most MaxLen characters over any of three alphabets: one with the        *)
(* characters of numbers and parentheses, one with those of the markers,   *)
(* one with decimal digits and whitespace outside ASCII (ARABIC-INDIC      *)
(* DIGIT THREE, tab, NO-BREAK SPACE) and SUPERSCRIPT TWO, which is a digit *)
(* to str.isdigit but not to \d.                                           *)

MaxLen == 5

NumberChars == {"1", "2", ".", "-", UMINUS, "(", ")", " "}
MarkerChars == {" ", "-", EMDASH, "N", "/", "A", "1"}
UnicodeChars == {"U+0663", "1", ".", "-", "\t", "U+00A0", "U+00B2"}

TextsOver(alphabet, n) == UNION {[1..k -> alphabet] : k \in 0..n}

ParseInputs ==
    TextsOver(NumberChars, MaxLen) \cup TextsOver(MarkerChars, MaxLen)
    \cup TextsOver(UnicodeChars, MaxLen)

\* The variables a specification does not use keep these values
IdleParse == temp_str = <<>> /\ result = Absent
IdleExtract == html = <<>> /\ idx = 0 /\ ri = 0 /\ all_data = <<>>
IdleLoad ==
    /\ data = <<>> /\ di = 0 /\ store = NoDatabase /\ db0 = NoDatabase
    /\ continent_ids = <<>> /\ country_ids = <<>>
IdleMain == calls = <<>> /\ response = NoResponse

parseVars == <<temp_str, result>>
extractVars == <<html, idx, ri, all_data>>
loadVars == <<data, di, store, continent_ids, country_ids, db0>>
mainVars == <<response, calls>>

InitParse ==
    /\ pc = "parse"
    /\ temp_str \in ParseInputs
    /\ result = Absent
    /\ IdleExtract /\ IdleLoad /\ IdleMain

\* The call parse_temperature(temp_str)
ParseCall ==
    /\ pc = "parse"
    /\ result' = parse_temperature(temp_str)
    /\ pc' = "parsed"
    /\ UNCHANGED <<temp_str, extractVars, loadVars, mainVars>>

NextParse == ParseCall

SpecParse == InitParse /\ [][NextParse]_vars

-----------------------------------------------------------------------------
(* Specification SpecExtract: extract_tables run on a page. A page is the  *)
(* sequence of its wikitables, a table the sequence of its rows (the first *)
(* is the header row), a row the sequence of the texts of its cells.       *)

MaxName == 3      \* longest country or city text enumerated
MaxBad == 2       \* most monthly cells replaced in one row
MaxCells == 16    \* most cells in a row
MaxTables == 7    \* most wikitables on a page

France == <<"F", "r", "a", "n", "c", "e">>
Paris == <<"P", "a", "r", "i", "s">>

FranceRow ==
    << France, Paris,
       <<"5", ".", "0">>, <<"6", ".", "0">>, <<"9", ".", "0">>,
       <<"1", "1", ".", "0">>, <<"1", "5", ".", "0">>, <<"1", "8", ".", "0">>,
       <<"2", "0", ".", "0">>, <<"2", "0", ".", "0">>, <<"1", "7", ".", "0">>,
       <<"1", "3", ".", "0">>, <<"8", ".", "0">>, <<"5", ".", "0">> >>

\* A header row: 15 th cells, none of them empty
HeaderRow == [i \in 1..15 |-> <<"h">>]

OneRowPage(row) == << <<HeaderRow, row>> >>

\* Rows of 0..MaxCells cells: the France row cut short, or extended with a
\* yearly cell and cells after it
LengthRows ==
    { [i \in 1..n |-> IF i <= 14 THEN FranceRow[i] ELSE <<"9", ".", "5">>] :
        n \in 0..MaxCells }

NameTexts ==
    TextsOver({"a", "[", "]", " ", NL}, MaxName)
    \cup TextsOver({"a", "[", "]", "\t", "U+00A0"}, MaxName)

\* Rows of 14 cells whose country or city text is any of NameTexts
NameRows ==
    { [FranceRow EXCEPT ![1] = t, ![2] = u] :
        t \in NameTexts, u \in { <<"b">>, <<>>, <<"[", "a", "]">> } }
    \cup
    { [FranceRow EXCEPT ![1] = u, ![2] = t] :
        t \in NameTexts, u \in { <<"b">>, <<>>, <<"[", "a", "]">> } }

\* Texts put in place of monthly cells
ReplacementTexts ==
    { <<>>, <<"N", "/", "A">>, <<"a", "b", "c">>, <<EMDASH>>, <<"0">>,
      <<UMINUS, "3", ".", "4">>, <<"U+0663">>,
      <<"1", "5", ".", "2", " ", "(", "5", "9", ".", "4", ")">> }

\* Texts of the yearly cell
YearlyTexts ==
    { <<>>, <<"a", "b", "c">>, <<"1", "2", ".", "3">>, <<"(", "1", ")">>,
      <<"U+0663">> }

\* Rows whose monthly cells are those of the France row, but for at most
\* MaxBad of them, or all of them, replaced by one of ReplacementTexts,
\* with or without a yearly cell
TempRows ==
    { [i \in 1..(14 + Len(y)) |->
          IF i = 15 THEN y[1]
          ELSE IF i \in bad THEN u ELSE FranceRow[i]] :
        bad \in {S \in SUBSET (3..14) : Cardinality(S) <= MaxBad \/ S = 3..14},
        u \in ReplacementTexts,
        y \in { <<>> } \cup { <<t>> : t \in YearlyTexts } }

Lima == <<"L", "i", "m", "a">>
Peru == <<"P", "e", "r", "u">>
ShortRow == [i \in 1..13 |-> FranceRow[i]]

\* The tables of the pages of several tables
TableKinds ==
    { <<HeaderRow, [FranceRow EXCEPT ![1] = Peru, ![2] = Lima]>>,
      <<HeaderRow, ShortRow, FranceRow>> }

\* Pages of one table that has no row, or the header row only, alone or
\* followed by a table with a row
RowlessPages ==
    { << <<>> >>, << <<HeaderRow>> >>,
      << <<>>, <<HeaderRow, FranceRow>> >>,
      << <<HeaderRow>>, <<HeaderRow, FranceRow>> >> }

Pages ==
    {OneRowPage(row) : row \in LengthRows \cup NameRows \cup TempRows}
    \cup UNION {[1..k -> TableKinds] : k \in 0..MaxTables}
    \cup RowlessPages

InitExtract ==
    /\ pc = "tables"
    /\ html \in Pages
    /\ idx = 0
    /\ ri = 0
    /\ all_data = <<>>
    /\ IdleParse /\ IdleLoad /\ IdleMain

\* `for idx, table in enumerate(tables)` with idx >= len(continent_order):
\* continue
SkipTable ==
    /\ pc = "tables"
    /\ idx < Len(html)
    /\ ~(idx < Len(continent_order))
    /\ idx' = idx + 1
    /\ UNCHANGED <<pc, ri, html, all_data, parseVars, loadVars, mainVars>>

\* Faulty variant: the loop runs over rows, the header row included
EnterTableKeepsHeader ==
    /\ pc = "tables"
    /\ idx < Len(html)
    /\ idx < Len(continent_order)
    /\ ri' = 1
    /\ pc' = "rows"
    /\ UNCHANGED <<idx, html, all_data, parseVars, loadVars, mainVars>>

\* idx < len(continent_order): rows = table.find_all('tr'), and the loop
\* over rows[1:] starts
EnterTable ==
    /\ pc = "tables"
    /\ idx < Len(html)
    /\ idx < Len(continent_order)
    /\ ri' = 2
    /\ pc' = "rows"
    /\ UNCHANGED <<idx, html, all_data, parseVars, loadVars, mainVars>>

\* One pass of `for row in rows[1:]`
ProcessRow ==
    /\ pc = "rows"
    /\ ri <= Len(html[idx + 1])
    /\ LET Step(records, raised) ==
               IF raised # ""
               THEN pc' = raised /\ UNCHANGED <<ri, all_data>>
               ELSE /\ all_data' = all_data \o records
                    /\ ri' = ri + 1
                    /\ pc' = pc
           Pass(records) == Step(records, RowException(records))
       IN  Pass(RowRecords(html[idx + 1][ri], continent_order[idx + 1]))
    /\ UNCHANGED <<idx, html, parseVars, loadVars, mainVars>>

\* rows[1:] is exhausted: on to the next table
EndTable ==
    /\ pc = "rows"
    /\ ri > Len(html[idx + 1])
    /\ idx' = idx + 1
    /\ pc' = "tables"
    /\ UNCHANGED <<ri, html, all_data, parseVars, loadVars, mainVars>>

\* return all_data
ReturnData ==
    /\ pc = "tables"
    /\ idx = Len(html)
    /\ pc' = "returned"
    /\ UNCHANGED <<idx, ri, html, all_data, parseVars, loadVars, mainVars>>

NextExtract == SkipTable \/ EnterTable \/ ProcessRow \/ EndTable \/ ReturnData

SpecExtract == InitExtract /\ [][NextExtract]_vars

-----------------------------------------------------------------------------
(* Properties of extract_tables, checked under SpecExtract *)

\* The row that the next ProcessRow step reads
CurrentCells == html[idx + 1][ri]

\* A ProcessRow step is about to be taken
AtRow == pc = "rows" /\ ri <= Len(html[idx + 1])

\* The row that the last ProcessRow step read
LastCells == html[idx + 1][ri - 1]

\* The last step was a ProcessRow step
AfterRow == pc = "rows" /\ ri > 2

\* The records the step appended to all_data
Appended == SubSeq(all_data', Len(all_data) + 1, Len(all_data'))

Monthly(r) ==
    <<r.jan, r.feb, r.mar, r.apr, r.may, r.jun,
      r.jul, r.aug, r.sep, r.oct, r.nov, r.dec>>

\* C1: no record is emitted for a row that has fewer than 14 cells,
\* whatever the cells contain and whichever table the row is in.
C1_ShortRowNeverEmitted ==
    [][ (AtRow /\ Len(CurrentCells) < 14) => all_data' = all_data ]_vars

C1_Witness ==
    /\ AfterRow
    /\ Len(LastCells) = 13
    /\ CleanName(LastCells[1]) # <<>>
    /\ CleanName(LastCells[2]) # <<>>
    /\ all_data = <<>>

\* C2: every emitted record has a non-empty country and a non-empty city:
\* a row whose cell 0 or cell 1 is empty after trimming whitespace and
\* removing the bracketed footnote markers is skipped.
C2_NamesNeverEmpty ==
    [][ /\ \A i \in 1..Len(all_data') :
              all_data'[i].country # <<>> /\ all_data'[i].city # <<>>
        /\ (/\ AtRow
            /\ Len(CurrentCells) >= 2
            /\ \/ Strip(RemoveBrackets(Strip(CurrentCells[1]))) = <<>>
               \/ Strip(RemoveBrackets(Strip(CurrentCells[2]))) = <<>>)
           => all_data' = all_data ]_vars

\* A row whose country is a NO-BREAK SPACE and an empty footnote marker
\* was skipped
C2_Witness ==
    /\ AfterRow
    /\ Len(LastCells) = 14
    /\ LastCells[1] = <<"U+00A0", "[", "]">>
    /\ LastCells[2] = <<"b">>
    /\ all_data = <<>>

Continents ==
    <<"Africa", "Asia", "Europe", "North America", "Oceania", "South America">>

\* C3: every record emitted from the k-th wikitable (k = 0..5) carries the
\* k-th name of Africa, Asia, Europe, North America, Oceania, South
\* America, and a wikitable at index 6 or beyond contributes no record.
C3_ContinentByPosition ==
    [][ /\ idx >= 6 => all_data' = all_data
        /\ idx < 6 => \A i \in 1..Len(Appended) :
                          Appended[i].continent = Continents[idx + 1] ]_vars

C3_Witness ==
    /\ pc = "returned"
    /\ Len(html) = 7
    /\ \E r \in 2..Len(html[7]) : RowRecords(html[7][r], "x") # <<>>
    /\ all_data # <<>>
    /\ all_data[Len(all_data)].continent = "South America"

\* The arithmetic mean of the present values of a sequence of 12 monthly
\* values, absent when none is present
MeanOfPresent(monthly) ==
    LET present == {m \in 1..12 : monthly[m].kind = "float"}
        total   == SumNums(Listed([k \in 1..12 |->
                       IF k \in present THEN monthly[k] ELSE Zero(1)]))
    IN  IF present = {} THEN Absent
        ELSE FloatDivInt(total, Cardinality(present))

\* C4: yearly_avg of an emitted record is the number the 15th cell parses
\* to when the row has one that parses to a number; otherwise it is the
\* mean of the monthly values that are present, absent if none is.
C4_YearlyAvg ==
    [][ AtRow => \A i \in 1..Len(Appended) :
          LET r == Appended[i]
              fifteenth == IF Len(CurrentCells) >= 15
                           THEN parse_temperature(CurrentCells[15]) ELSE Absent
          IN  r.yearly_avg = IF fifteenth.kind = "float" THEN fifteenth
                             ELSE MeanOfPresent(Monthly(r)) ]_vars

\* A row with an unparseable yearly cell and one absent month was emitted
C4_Witness ==
    /\ AfterRow
    /\ Len(LastCells) = 15
    /\ parse_temperature(LastCells[15]) = Absent
    /\ all_data # <<>>
    /\ Cardinality({m \in 1..12 : Monthly(all_data[Len(all_data)])[m] = Absent}) = 1
    /\ all_data[Len(all_data)].yearly_avg.kind = "float"

\* The float n * 2^e, for an integer n that it holds exactly
Float(n, e) == Double(IF n < 0 THEN -1 ELSE 1, Big(IF n < 0 THEN -n ELSE n), e, FALSE)

\* C5: a page with one wikitable holding a header row and the row France,
\* Paris, 5.0, 6.0, 9.0, 11.0, 15.0, 18.0, 20.0, 20.0, 17.0, 13.0, 8.0, 5.0
\* yields exactly one record: Africa, France, Paris, the twelve values in
\* order, and yearly_avg = 12.25.
C5_FranceScenario ==
    (pc = "returned" /\ html = << <<HeaderRow, FranceRow>> >>) =>
        all_data = << [continent |-> "Africa", country |-> France, city |-> Paris,
                       jan |-> Float(5, 0), feb |-> Float(6, 0), mar |-> Float(9, 0),
                       apr |-> Float(11, 0), may |-> Float(15, 0), jun |-> Float(18, 0),
                       jul |-> Float(20, 0), aug |-> Float(20, 0), sep |-> Float(17, 0),
                       oct |-> Float(13, 0), nov |-> Float(8, 0), dec |-> Float(5, 0),
                       yearly_avg |-> Float(49, -2)] >>

C5_Witness ==
    /\ pc = "returned"
    /\ html = << <<HeaderRow, FranceRow>> >>
    /\ Len(all_data) = 1

\* C10: a malformed temperature cell never aborts the extraction nor drops
\* its row: every row that passes the cell-count and name guards is emitted
\* with 12 monthly slots, slot m being the parser's result for cell m + 1
\* (cells counted from 0), absent for an unparseable cell; and a page with
\* no table yields the empty sequence.
C10_MalformedCellsDegrade ==
    /\ [](pc \in {"tables", "rows", "returned"})
    /\ []((pc = "returned" /\ html = <<>>) => all_data = <<>>)
    /\ [][ (/\ AtRow
            /\ Len(CurrentCells) >= 14
            /\ CleanName(CurrentCells[1]) # <<>>
            /\ CleanName(CurrentCells[2]) # <<>>)
           => /\ Len(Appended) = 1
              /\ Monthly(Appended[1]) =
                    [m \in 1..12 |-> parse_temperature(CurrentCells[m + 2])] ]_vars

\* A row with the malformed cell abc in one month was emitted, that month
\* absent and the others present
C10_Witness ==
    /\ AfterRow
    /\ Len(LastCells) = 14
    /\ LastCells[5] = <<"a", "b", "c">>
    /\ all_data # <<>>
    /\ Monthly(all_data[Len(all_data)])[3] = Absent
    /\ \A m \in (1..12) \ {3} : Monthly(all_data[Len(all_data)])[m].kind = "float"

-----------------------------------------------------------------------------
(* Specification SpecLoad: create_database run on every sequence of at     *)
(* most MaxRecords records, on a database that does not exist yet or that  *)
(* an earlier run has filled.                                              *)

MaxRecords == 3

LoadRecords ==
    { Record(continent, country, city, MonthlyTemps(FranceRow),
             YearlyAvg(FranceRow, MonthlyTemps(FranceRow))) :
        continent \in {"Africa", "Asia"}, country \in {Peru, France},
        city \in {Lima, Paris} }

\* The database an earlier run left
SeedDatabase ==
    create_database(<< Record("Africa", Peru, Lima, MonthlyTemps(FranceRow),
                              YearlyAvg(FranceRow, MonthlyTemps(FranceRow))) >>,
                    NoDatabase)

InitLoad ==
    /\ pc = "connect"
    /\ data \in UNION {[1..k -> LoadRecords] : k \in 0..MaxRecords}
    /\ store \in {NoDatabase, SeedDatabase}
    /\ db0 = store
    /\ di = 0
    /\ continent_ids = <<>>
    /\ country_ids = <<>>
    /\ IdleParse /\ IdleExtract /\ IdleMain

\* conn = sqlite3.connect(db_path), the schema, and the two empty dicts
ConnectDb ==
    /\ pc = "connect"
    /\ store' = Connect(store)
    /\ continent_ids' = <<>>
    /\ country_ids' = <<>>
    /\ pc' = "insert"
    /\ UNCHANGED <<data, di, db0, parseVars, extractVars, mainVars>>

\* One pass of `for row in data`
InsertNext ==
    /\ pc = "insert"
    /\ di < Len(data)
    /\ LET after == InsertRow(store, continent_ids, country_ids, data[di + 1])
       IN  /\ store' = after.db
           /\ continent_ids' = after.continent_ids
           /\ country_ids' = after.country_ids
    /\ di' = di + 1
    /\ UNCHANGED <<pc, data, db0, parseVars, extractVars, mainVars>>

\* conn.commit() once the loop is over, then the summary is printed
Commit ==
    /\ pc = "insert"
    /\ di = Len(data)
    /\ pc' = "committed"
    /\ UNCHANGED <<loadVars, parseVars, extractVars, mainVars>>

NextLoad == ConnectDb \/ InsertNext \/ Commit

SpecLoad == InitLoad /\ [][NextLoad]_vars

-----------------------------------------------------------------------------
(* Specification SpecMain: main run against every response of the server   *)

MaxMainTables == 2

MainPages == UNION {[1..k -> TableKinds] : k \in 0..MaxMainTables} \cup RowlessPages

StatusCodes == {200, 204, 304, 404, 500}

MainResponses ==
    { [error |-> TRUE, status_code |-> 0, text |-> <<>>] }
    \cup { [error |-> FALSE, status_code |-> c, text |-> p] :
              c \in StatusCodes, p \in MainPages }

InitMain ==
    /\ pc = "main"
    /\ response \in MainResponses
    /\ calls = <<>>
    /\ html = <<>>
    /\ data = <<>>
    /\ store \in {NoDatabase, SeedDatabase}
    /\ db0 = store
    /\ idx = 0 /\ ri = 0 /\ all_data = <<>>
    /\ di = 0 /\ continent_ids = <<>> /\ country_ids = <<>>
    /\ IdleParse

\* html = fetch_wikipedia_page(): an exception it raises ends main
Fetch ==
    /\ pc = "main"
    /\ calls' = Append(calls, "fetch_wikipedia_page")
    /\ IF FetchException(response) # ""
       THEN pc' = FetchException(response) /\ html' = html
       ELSE pc' = "fetched" /\ html' = response.text
    /\ UNCHANGED <<idx, ri, all_data, response, loadVars, parseVars>>

\* data = extract_tables(html)
Extract ==
    /\ pc = "fetched"
    /\ calls' = Append(calls, "extract_tables")
    /\ data' = extract_tables(html)
    /\ pc' = "extracted"
    /\ UNCHANGED <<extractVars, response, di, store, continent_ids,
                   country_ids, db0, parseVars>>

\* Faulty variant: create_database is called whatever data holds
LoadUnguarded ==
    /\ pc = "extracted"
    /\ calls' = Append(calls, "create_database")
    /\ store' = create_database(data, store)
    /\ pc' = "done"
    /\ UNCHANGED <<extractVars, response, data, di, continent_ids,
                   country_ids, db0, parseVars>>

\* if data: create_database(data)
Load ==
    /\ pc = "extracted"
    /\ data # <<>>
    /\ calls' = Append(calls, "create_database")
    /\ store' = create_database(data, store)
    /\ pc' = "done"
    /\ UNCHANGED <<extractVars, response, data, di, continent_ids,
                   country_ids, db0, parseVars>>

\* else: print("No data found!")
NoData ==
    /\ pc = "extracted"
    /\ data = <<>>
    /\ pc' = "done"
    /\ UNCHANGED <<extractVars, loadVars, mainVars, parseVars>>

NextMain == Fetch \/ Extract \/ Load \/ NoData

SpecMain == InitMain /\ [][NextMain]_vars

-----------------------------------------------------------------------------
(* Properties of parse_temperature, checked under SpecParse *)

HasDigit(s) == \E i \in 1..Len(s) : s[i] \in Digits

\* s is a recognized no-data marker, possibly surrounded by whitespace:
\* nothing but whitespace, or one em-dash, one hyphen or N/A in whitespace
IsMarkerText(s) ==
    \/ \A k \in 1..Len(s) : s[k] \in Whitespace
    \/ \E i \in 1..Len(s) : \E j \in i..Len(s) :
          /\ SubSeq(s, i, j) \in { <<EMDASH>>, <<"-">>, <<"N", "/", "A">> }
          /\ \A k \in (1..Len(s)) \ (i..j) : s[k] \in Whitespace

\* C6: parse_temperature never raises: every call returns a number or
\* absent, and it returns absent for every no-data marker (surrounded by
\* whitespace or not) and for every text without a digit.
C6_ParseTotal ==
    pc = "parsed" =>
        /\ result.kind \in {"None", "float"}
        /\ (IsMarkerText(temp_str) \/ ~HasDigit(temp_str)) => result = Absent

\* The marker "-" between a tab and a NO-BREAK SPACE gave absent
C6_Witness ==
    /\ pc = "parsed"
    /\ temp_str = <<"\t", "-", "U+00A0">>
    /\ result = Absent

\* Position of the ")" that closes the "(" at position i of s when
\* parentheses nest, or 0 when that "(" is never closed
RECURSIVE Closer(_, _, _)
Closer(s, j, depth) ==
    IF j > Len(s) THEN 0
    ELSE IF s[j] = "(" THEN Closer(s, j + 1, depth + 1)
    ELSE IF s[j] = ")" THEN (IF depth = 1 THEN j ELSE Closer(s, j + 1, depth - 1))
    ELSE Closer(s, j + 1, depth)

\* Position k of s lies inside a parenthesized substring of s
InsideParens(s, k) ==
    \E i \in 1..(k - 1) : s[i] = "(" /\ Closer(s, i + 1, 1) > k

\* s with every parenthesized substring removed, nested ones included
RECURSIVE WithoutParenthesized(_)
WithoutParenthesized(s) ==
    IF s = <<>> THEN <<>>
    ELSE IF Head(s) = "(" /\ Closer(s, 2, 1) > 0
         THEN WithoutParenthesized(SubSeq(s, Closer(s, 2, 1) + 1, Len(s)))
         ELSE <<Head(s)>> \o WithoutParenthesized(Tail(s))

\* The value of the first signed decimal of s, absent when there is none
FirstNumber(s) ==
    IF Search(s) = NoMatch THEN Absent ELSE PyFloat(ReplaceMinus(Search(s)[1]))

\* C7: for every input that is not a no-data marker, a number that occurs
\* only inside parentheses is never returned by parse_temperature (the
\* parenthesized substrings are removed before the number is searched).
C7_NumberInsideParensNeverReturned ==
    (/\ pc = "parsed"
     /\ ~IsMarkerText(temp_str)
     /\ \A k \in 1..Len(temp_str) :
            temp_str[k] \in Digits => InsideParens(temp_str, k))
    => result = Absent

\* The parentheses of s do not nest: after a "(" the next parenthesis, if
\* there is one, is a ")"
Flat(s) ==
    \A i \in 1..Len(s) : s[i] = "(" =>
        \A j \in (i + 1)..Len(s) :
            s[j] = "(" => \E k \in (i + 1)..(j - 1) : s[k] = ")"

\* What the code does guarantee: on a text whose parentheses do not nest
\* the result is the first signed decimal outside parentheses, and a number
\* that occurs only inside parentheses is not returned.
ParseOnFlatText ==
    (pc = "parsed" /\ ~IsMarkerText(temp_str) /\ Flat(temp_str)) =>
        /\ result = FirstNumber(WithoutParenthesized(temp_str))
        /\ (\A k \in 1..Len(temp_str) :
                temp_str[k] \in Digits => InsideParens(temp_str, k))
             => result = Absent

-----------------------------------------------------------------------------
(* Properties of create_database, checked under SpecLoad *)

IsEmptyDatabase(db) ==
    /\ db.continents = <<>> /\ db.countries = <<>>
    /\ db.cities = <<>> /\ db.temperatures = <<>>

Range(seq) == {seq[i] : i \in 1..Len(seq)}

\* The ids of a relation are pairwise different
UniqueIds(rel) == \A i, j \in 1..Len(rel) : rel[i].id = rel[j].id => i = j

\* The name of the continent a countries row refers to
ContinentOf(db, country_row) ==
    (CHOOSE c \in Range(db.continents) : c.id = country_row.continent_id).name

\* C8: after create_database has loaded a sequence of records into an
\* initially empty store, continents holds one row per distinct continent,
\* countries one row per distinct (country, continent) pair, cities and
\* temperatures one row per record; the temperature row of a record
\* references the city row of that record, which references the country
\* row of the record's (country, continent) pair.
C8_LoadedRelations ==
    (pc = "committed" /\ IsEmptyDatabase(db0)) =>
        /\ UniqueIds(store.continents) /\ UniqueIds(store.countries)
        /\ UniqueIds(store.cities) /\ UniqueIds(store.temperatures)
        /\ Len(store.continents) = Cardinality({r.continent : r \in Range(data)})
        /\ {c.name : c \in Range(store.continents)}
              = {r.continent : r \in Range(data)}
        /\ \A k \in Range(store.countries) :
              \E c \in Range(store.continents) : c.id = k.continent_id
        /\ Len(store.countries)
              = Cardinality({<<r.country, r.continent>> : r \in Range(data)})
        /\ {<<k.name, ContinentOf(store, k)>> : k \in Range(store.countries)}
              = {<<r.country, r.continent>> : r \in Range(data)}
        /\ Len(store.cities) = Len(data)
        /\ Len(store.temperatures) = Len(data)
        /\ \A i \in 1..Len(data) :
              /\ store.temperatures[i].city_id = store.cities[i].id
              /\ store.temperatures[i].yearly_avg = data[i].yearly_avg
              /\ store.cities[i].name = data[i].city
              /\ \E k \in Range(store.countries) :
                    /\ k.id = store.cities[i].country_id
                    /\ k.name = data[i].country
                    /\ ContinentOf(store, k) = data[i].continent

\* Loaded: one country under two continents, and one record twice
C8_Witness ==
    /\ pc = "committed"
    /\ db0 = NoDatabase
    /\ Len(data) = 3
    /\ data[1].country = data[2].country
    /\ data[1].continent # data[2].continent
    /\ data[3] = data[1]
    /\ Len(store.countries) = 2
    /\ Len(store.cities) = 3

-----------------------------------------------------------------------------
(* Properties of main, checked under SpecMain *)

MainOrder == <<"fetch_wikipedia_page", "extract_tables", "create_database">>

\* The steps of main run in the order fetch, extract, load; when the fetch
\* fails nothing else is called and the store is untouched; when the
\* extraction is empty create_database is not called and the store is
\* untouched; create_database is called once, after a non-empty extraction.
MainRunsInOrder(fetch_fails) ==
    /\ Len(calls) <= 3 /\ calls = SubSeq(MainOrder, 1, Len(calls))
    /\ (pc # "main" /\ fetch_fails) =>
          /\ pc \in {"ConnectionError", "HTTPError"}
          /\ calls = <<"fetch_wikipedia_page">>
          /\ data = <<>>
          /\ store = db0
    /\ pc \in {"ConnectionError", "HTTPError"} => fetch_fails
    /\ Len(calls) = 3 => data # <<>>
    /\ (pc = "done" /\ data = <<>>) => Len(calls) = 2 /\ store = db0
    /\ (pc = "done" /\ data # <<>>) =>
          Len(calls) = 3 /\ store = create_database(data, db0)

\* C9: in main the steps run in the order fetch, extract, load; when the
\* fetch fails (network error or non-2xx response) the error propagates
\* and neither extraction nor any store operation happens; when extraction
\* returns nothing create_database is never called; create_database is
\* called exactly once, after a successful fetch and a non-empty extraction.
C9_Non2xxAborts ==
    MainRunsInOrder(\/ response.error
                    \/ ~(response.status_code >= 200 /\ response.status_code < 300))

\* What main does: the same, the fetch failing on a network error or on a
\* response with a status code from 400 to 599 only (raise_for_status).
C9_ErrorStatusAborts ==
    MainRunsInOrder(\/ response.error
                    \/ (response.status_code >= 400 /\ response.status_code < 600))

C9_Witness ==
    /\ pc = "HTTPError"
    /\ response.status_code = 404
    /\ response.text # <<>>
    /\ calls = <<"fetch_wikipedia_page">>
    /\ store = db0

\* The loop of SpecExtract and the loop of SpecLoad compute what the
\* operators extract_tables and create_database give
LoopsAgreeWithOperators ==
    /\ pc = "returned" => all_data = extract_tables(html)
    /\ pc = "committed" => store = create_database(data, db0)

====
